---- MODULE Spec2Model ----
(***************************************************************************)
(* Model of modellbahndisplays_de_integration.py: the FirmwareList catalog *)
(* (three load stages, cleanse, load_from_website) and the Firmware record *)
(* (download_file, download_to_file, pre_flash_web_verify,                 *)
(* remove_downloaded_firmware).                                            *)
(***************************************************************************)
EXTENDS Integers, Sequences, FiniteSets, TLC

(***************************************************************************)
(* Bounds of the model.                                                    *)
(***************************************************************************)
\* rows in one JSON response of the remote service
MaxRows == 2
\* load_from_website calls made on one FirmwareList
MaxCycles == 2

ProjectIds == {1, 2}
FamilyIds == {1, 2}
FlashMethods == {"esptool", "avrdude"}

SeqsUpTo(S, n) == UNION {[1..k -> S] : k \in 0..n}

(***************************************************************************)
(* Responses of the remote service.  ok = FALSE: requests.get() or         *)
(* response.json() raised.  A row with wellformed = FALSE lacks a key the  *)
(* stage reads.                                                            *)
(***************************************************************************)
NetworkFailure == [ok |-> FALSE, data |-> <<>>]

\* the rows of one response that carry an id have different ids (a table's keys)
DistinctIds(d) ==
    \A i, j \in 1..Len(d) : (i # j /\ d[i].wellformed /\ d[j].wellformed) => d[i].id # d[j].id

\* the service gives each project, and each device family, a name of its own
ProjectNames == [i \in ProjectIds |-> IF i = 1 THEN "ProjectA" ELSE "ProjectB"]
FamilyNames == [i \in FamilyIds |-> IF i = 1 THEN "FamA" ELSE "FamB"]

ProjectRows ==
    {[id |-> i, name |-> ProjectNames[i], wellformed |-> TRUE] : i \in ProjectIds}
        \cup {[id |-> 1, name |-> "", wellformed |-> FALSE]}
ProjectResponses ==
    {NetworkFailure}
        \cup {[ok |-> TRUE, data |-> d] : d \in {e \in SeqsUpTo(ProjectRows, MaxRows) : DistinctIds(e)}}

FamilyRows ==
    {[id |-> i, name |-> FamilyNames[i], flash_method |-> m, wellformed |-> TRUE]
        : i \in FamilyIds, m \in FlashMethods}
        \cup {[id |-> 1, name |-> "", flash_method |-> "esptool", wellformed |-> FALSE]}
FamilyResponses ==
    {NetworkFailure}
        \cup {[ok |-> TRUE, data |-> d] : d \in {e \in SeqsUpTo(FamilyRows, MaxRows) : DistinctIds(e)}}

\* shape: "ok" all keys present; "no_family_id" the key family_id is missing;
\* "no_field" family_id is present, another key is missing.
FirmwareRowBodies ==
    [family_id : FamilyIds, project_id : ProjectIds, shape : {"ok"}]
        \cup [family_id : FamilyIds, project_id : {1}, shape : {"no_field"}]
        \cup {[family_id |-> 1, project_id |-> 1, shape |-> "no_family_id"]}
\* name, version and variant of the firmware row with the id i: the first has
\* a version, the second a variant, a later one neither
FirmwareNames(i) ==
    CASE i = 1 -> [name |-> "FW1", version |-> "1.0", variant |-> ""]
      [] i = 2 -> [name |-> "FW2", version |-> "", variant |-> "esp32"]
      [] OTHER -> [name |-> "FW", version |-> "", variant |-> ""]

\* the row's id is its position in the response (ids of one response are distinct)
WithIds(d) == [i \in 1..Len(d) |-> [id |-> i, name |-> FirmwareNames(i).name,
                                    version |-> FirmwareNames(i).version,
                                    variant |-> FirmwareNames(i).variant,
                                    family_id |-> d[i].family_id,
                                    project_id |-> d[i].project_id, shape |-> d[i].shape]]
FirmwareResponses ==
    {NetworkFailure} \cup {[ok |-> TRUE, data |-> WithIds(d)] : d \in SeqsUpTo(FirmwareRowBodies, MaxRows)}

(***************************************************************************)
(* The dataclasses, reduced to the fields the catalog logic reads.         *)
(***************************************************************************)
DeviceFamily(row) == [id |-> row.id, name |-> row.name, flash_method |-> row.flash_method,
                      firmware |-> <<>>]
Project(row) == [id |-> row.id, name |-> row.name, device_families |-> << >>]
Firmware(row) == [id |-> row.id, name |-> row.name, version |-> row.version,
                  variant |-> row.variant, family_id |-> row.family_id,
                  project_id |-> row.project_id]

\* __str__ of the three dataclasses
Project_str(project) == project.name
DeviceFamily_str(family) == family.name
Firmware_str(firmware) ==
    firmware.name
        \o (IF Len(firmware.version) > 0 THEN " - " \o firmware.version ELSE "")
        \o (IF Len(firmware.variant) > 0 THEN " - " \o firmware.variant ELSE "")

\* d with key k set to v (dict item assignment)
SetItem(d, k, v) == [x \in DOMAIN d \cup {k} |-> IF x = k THEN v ELSE d[x]]

VARIABLES
    Projects,           \* FirmwareList.Projects: id -> Project
    DeviceFamilies,     \* FirmwareList.DeviceFamilies: id -> DeviceFamily
    valid_family_ids,   \* FirmwareList.valid_family_ids (a list)
    pc,                 \* position of a running load_from_website call
    load_esptool_only,  \* argument of the running/last load_from_website call
    cyclePre,           \* the catalog when the running or failed load_from_website call started
    lastOp,             \* the loading or cleansing method that acted last
    lastRet,            \* its outcome: "True", "False", "None" or "raise"
    cycles,             \* load_from_website calls made so far
    excluded_family_ids, \* ids of the family rows the running/last call skipped as not esptool
    stage_log,          \* the stages the running/last load_from_website call has run, in
                        \* order, each with its outcome and what its request delivered
    successes,          \* load_from_website calls that returned True so far
    fresh               \* what a new FirmwareList holds after the stages of the running/last
                        \* load_from_website call, given the same responses (ok: each of
                        \* them returned True there)

catalogVars == <<Projects, DeviceFamilies, valid_family_ids, pc, load_esptool_only, cyclePre,
                 lastOp, lastRet, cycles, excluded_family_ids, stage_log, successes, fresh>>

Catalog == [Projects |-> Projects, DeviceFamilies |-> DeviceFamilies,
            valid_family_ids |-> valid_family_ids]

(***************************************************************************)
(* load_projects_from_website                                              *)
(***************************************************************************)
RECURSIVE load_projects_rows(_, _)
load_projects_rows(P, rows) ==
    IF rows = <<>> THEN P
    ELSE LET row == Head(rows)
         IN load_projects_rows(IF row.wellformed THEN SetItem(P, row.id, Project(row)) ELSE P,
                               Tail(rows))

\* requests.get / response.json are not inside a try: a failure raises
load_projects_from_website(cat, response) ==
    IF ~response.ok THEN [cat |-> cat, ret |-> "raise"]
    ELSE IF Len(response.data) > 0
         THEN [cat |-> [cat EXCEPT !.Projects = load_projects_rows(cat.Projects, response.data)],
               ret |-> "True"]
         ELSE [cat |-> cat, ret |-> "False"]

(***************************************************************************)
(* load_families_from_website                                              *)
(***************************************************************************)
\* the esptool-only filter left out
family_row_skipped_unfiltered(row, esptool_only) == ~row.wellformed

family_row_skipped(row, esptool_only) ==
    ~row.wellformed \/ (row.flash_method # "esptool" /\ esptool_only)

RECURSIVE load_families_rows(_, _, _)
load_families_rows(cat, rows, esptool_only) ==
    IF rows = <<>> THEN cat
    ELSE LET row == Head(rows)
             new_family == DeviceFamily(row)
             next ==
                IF family_row_skipped(row, esptool_only) THEN cat
                ELSE [Projects |-> [p \in DOMAIN cat.Projects |->
                                      [cat.Projects[p] EXCEPT !.device_families =
                                          SetItem(@, new_family.id, new_family)]],
                      DeviceFamilies |-> SetItem(cat.DeviceFamilies, new_family.id, new_family),
                      valid_family_ids |-> Append(cat.valid_family_ids, new_family.id)]
         IN load_families_rows(next, Tail(rows), esptool_only)

\* the ids of the rows that take the `continue` of the esptool-only filter
esptool_excluded(rows, esptool_only) ==
    {rows[i].id : i \in {j \in 1..Len(rows) :
                            /\ rows[j].wellformed
                            /\ rows[j].flash_method # "esptool" /\ esptool_only}}

load_families_from_website(cat, response, esptool_only) ==
    IF ~response.ok THEN [cat |-> cat, ret |-> "False"]
    ELSE IF Len(response.data) > 0
         THEN [cat |-> load_families_rows(cat, response.data, esptool_only), ret |-> "True"]
         ELSE [cat |-> cat, ret |-> "False"]

(***************************************************************************)
(* load_firmware_from_website                                              *)
(***************************************************************************)
InList(x, l) == \E i \in 1..Len(l) : l[i] = x

\* the firmware appended to the copy of the family in every project
RECURSIVE load_firmware_rows_every_project(_, _)
load_firmware_rows_every_project(cat, rows) ==
    IF rows = <<>> THEN [cat |-> cat, ret |-> "True"]
    ELSE LET row == Head(rows)
             new_firmware == Firmware(row)
             fid == row.family_id
             pid == row.project_id
             global == [cat EXCEPT !.DeviceFamilies[fid].firmware = Append(@, new_firmware)]
         IN IF row.shape = "no_family_id" THEN [cat |-> cat, ret |-> "raise"]
            ELSE IF ~InList(fid, cat.valid_family_ids)
                 THEN load_firmware_rows_every_project(cat, Tail(rows))
            ELSE IF row.shape = "no_field" THEN [cat |-> cat, ret |-> "raise"]
            ELSE IF pid \notin DOMAIN cat.Projects
                    \/ fid \notin DOMAIN cat.Projects[pid].device_families
                 THEN [cat |-> global, ret |-> "raise"]
            ELSE load_firmware_rows_every_project(
                    [global EXCEPT !.Projects =
                        [p \in DOMAIN @ |->
                            IF fid \in DOMAIN @[p].device_families
                            THEN [@[p] EXCEPT !.device_families[fid].firmware =
                                                  Append(@, new_firmware)]
                            ELSE @[p]]],
                    Tail(rows))

RECURSIVE load_firmware_rows(_, _)
load_firmware_rows(cat, rows) ==
    IF rows = <<>> THEN [cat |-> cat, ret |-> "True"]
    ELSE LET row == Head(rows)
             new_firmware == Firmware(row)
             fid == row.family_id
             pid == row.project_id
             global == [cat EXCEPT !.DeviceFamilies[fid].firmware = Append(@, new_firmware)]
         IN IF row.shape = "no_family_id" THEN [cat |-> cat, ret |-> "raise"]
            ELSE IF ~InList(fid, cat.valid_family_ids) THEN load_firmware_rows(cat, Tail(rows))
            ELSE IF row.shape = "no_field" THEN [cat |-> cat, ret |-> "raise"]
            ELSE IF pid \notin DOMAIN cat.Projects
                    \/ fid \notin DOMAIN cat.Projects[pid].device_families
                 THEN [cat |-> global, ret |-> "raise"]
            ELSE load_firmware_rows(
                    [global EXCEPT !.Projects[pid].device_families[fid].firmware =
                                        Append(@, new_firmware)],
                    Tail(rows))

load_firmware_from_website(cat, response) ==
    IF ~response.ok THEN [cat |-> cat, ret |-> "False"]
    ELSE IF Len(response.data) > 0
         THEN load_firmware_rows(cat, response.data)
         ELSE [cat |-> cat, ret |-> "False"]

(***************************************************************************)
(* cleanse_projects                                                        *)
(***************************************************************************)
\* no family is deleted
cleanse_device_families_keeps_all(families) == families

cleanse_device_families(families) ==
    [f \in {g \in DOMAIN families : ~(Len(families[g].firmware) <= 0)} |-> families[f]]

\* the deletion of a project without device families left out
cleanse_projects_keeps_projects(P) ==
    [p \in DOMAIN P |-> [P[p] EXCEPT !.device_families = cleanse_device_families(@)]]

cleanse_projects(P) ==
    LET cleansed == [p \in DOMAIN P |->
                        [P[p] EXCEPT !.device_families = cleanse_device_families(@)]]
    IN [p \in {q \in DOMAIN cleansed : ~(Cardinality(DOMAIN cleansed[q].device_families) <= 0)}
            |-> cleansed[p]]

(***************************************************************************)
(* The lookup and listing queries.  Each yields the FirmwareList as it      *)
(* leaves it and what it returns.  A list of display strings is kept as the *)
(* set of its elements (the dicts' key order is not modelled).              *)
(***************************************************************************)
RetNone == [kind |-> "None", value |-> {}]
RetId(id) == [kind |-> "id", value |-> id]
RetList(strs) == [kind |-> "list", value |-> strs]
RetFirmware(firmware) == [kind |-> "Firmware", value |-> firmware]
\* a KeyError leaving the method
RetRaise == [kind |-> "raise", value |-> {}]

\* an id argument: None or an int
NoneArg == [is_none |-> TRUE, id |-> 0]
IdArg(id) == [is_none |-> FALSE, id |-> id]
\* `arg in d` for a dict d keyed by ints
InDict(arg, d) == ~arg.is_none /\ arg.id \in DOMAIN d

get_project_list(cat) ==
    LET available_projects == {Project_str(cat.Projects[p]) : p \in DOMAIN cat.Projects}
    IN [cat |-> cat,
        ret |-> IF Cardinality(DOMAIN cat.Projects) = 0
                THEN RetList({"Unable to download project list"})
                ELSE RetList(available_projects)]

\* names differ from project to project: at most one project matches
get_project_id(cat, project_str) ==
    LET found == {p \in DOMAIN cat.Projects : Project_str(cat.Projects[p]) = project_str}
    IN [cat |-> cat,
        ret |-> IF found # {} THEN RetId(CHOOSE p \in found : TRUE) ELSE RetNone]

get_device_family_id(cat, project_id, device_family_str) ==
    IF ~InDict(project_id, cat.Projects) THEN [cat |-> cat, ret |-> RetNone]
    ELSE LET families == cat.Projects[project_id.id].device_families
             found == {f \in DOMAIN families : DeviceFamily_str(families[f]) = device_family_str}
         IN [cat |-> cat,
             ret |-> IF found # {} THEN RetId(CHOOSE f \in found : TRUE) ELSE RetNone]

get_device_family_list(cat, selected_project_id) ==
    IF selected_project_id.is_none THEN [cat |-> cat, ret |-> RetList({""})]
    ELSE IF ~InDict(selected_project_id, cat.Projects) THEN [cat |-> cat, ret |-> RetList({""})]
    ELSE LET families == cat.Projects[selected_project_id.id].device_families
             available_devices == {DeviceFamily_str(families[f]) : f \in DOMAIN families}
         IN [cat |-> cat,
             ret |-> IF Cardinality(DOMAIN families) = 0
                     THEN RetList({"Unable to download device family list"})
                     ELSE RetList(available_devices)]

get_firmware_list(cat, selected_project_id, selected_family_id) ==
    IF selected_project_id.is_none THEN [cat |-> cat, ret |-> RetList({""})]
    ELSE IF ~InDict(selected_project_id, cat.Projects) THEN [cat |-> cat, ret |-> RetList({""})]
    ELSE IF selected_family_id.is_none THEN [cat |-> cat, ret |-> RetList({""})]
    ELSE IF ~InDict(selected_family_id, cat.Projects[selected_project_id.id].device_families)
         THEN [cat |-> cat, ret |-> RetList({""})]
    ELSE LET firmware == cat.Projects[selected_project_id.id]
                            .device_families[selected_family_id.id].firmware
             available_firmware == {Firmware_str(firmware[i]) : i \in 1..Len(firmware)}
         IN [cat |-> cat,
             ret |-> IF Len(firmware) = 0
                     THEN RetList({"Unable to download firmware list"})
                     ELSE RetList(available_firmware)]

\* the check of the family id left out: the lookup of a family the project
\* does not have is a KeyError
get_firmware_unchecked_family(cat, project_id, family_id, firmware_str) ==
    IF ~InDict(project_id, cat.Projects) THEN [cat |-> cat, ret |-> RetNone]
    ELSE IF ~InDict(family_id, cat.Projects[project_id.id].device_families)
         THEN [cat |-> cat, ret |-> RetRaise]
    ELSE LET firmware == cat.Projects[project_id.id].device_families[family_id.id].firmware
             found == {i \in 1..Len(firmware) : Firmware_str(firmware[i]) = firmware_str}
         IN [cat |-> cat,
             ret |-> IF found # {}
                     THEN RetFirmware(firmware[CHOOSE i \in found : \A j \in found : i <= j])
                     ELSE RetNone]

get_firmware(cat, project_id, family_id, firmware_str) ==
    IF ~InDict(project_id, cat.Projects) THEN [cat |-> cat, ret |-> RetNone]
    ELSE IF ~InDict(family_id, cat.Projects[project_id.id].device_families)
         THEN [cat |-> cat, ret |-> RetNone]
    ELSE LET firmware == cat.Projects[project_id.id].device_families[family_id.id].firmware
             found == {i \in 1..Len(firmware) : Firmware_str(firmware[i]) = firmware_str}
         IN [cat |-> cat,
             ret |-> IF found # {}
                     THEN RetFirmware(firmware[CHOOSE i \in found : \A j \in found : i <= j])
                     ELSE RetNone]

(***************************************************************************)
(* load_from_website: the nested ifs.  A stage that returned True is        *)
(* followed by the next one, loadFirmware by cleanse_projects; after any    *)
(* other outcome the call is over.                                          *)
(***************************************************************************)
\* every stage is followed by the next, whatever it returned
next_stage_goes_on(stage, ret) ==
    CASE stage = "projects" -> "families"
      [] stage = "families" -> "firmware"
      [] stage = "firmware" -> "cleanse"

next_stage(stage, ret) ==
    IF ret = "True"
    THEN CASE stage = "projects" -> "families"
           [] stage = "families" -> "firmware"
           [] stage = "firmware" -> "cleanse"
    ELSE "idle"

\* what stage_log keeps of a stage: its outcome, whether its request delivered
\* JSON, and whether that had rows
StageEntry(stage, response, ret) ==
    [stage |-> stage, ret |-> ret, request_ok |-> response.ok,
     has_rows |-> Len(response.data) > 0]

SetCatalog(cat) ==
    /\ Projects' = cat.Projects
    /\ DeviceFamilies' = cat.DeviceFamilies
    /\ valid_family_ids' = cat.valid_family_ids

\* FirmwareList(): the default_factory of each field
EmptyCatalog == [Projects |-> << >>, DeviceFamilies |-> << >>, valid_family_ids |-> <<>>]

CatalogInit ==
    /\ Projects = << >>
    /\ DeviceFamilies = << >>
    /\ valid_family_ids = <<>>
    /\ pc = "idle"
    /\ load_esptool_only = TRUE
    /\ cyclePre = [Projects |-> << >>, DeviceFamilies |-> << >>, valid_family_ids |-> <<>>]
    /\ lastOp = "init"
    /\ lastRet = "None"
    /\ cycles = 0
    /\ excluded_family_ids = {}
    /\ stage_log = <<>>
    /\ successes = 0
    /\ fresh = [cat |-> EmptyCatalog, ok |-> TRUE]

(***************************************************************************)
(* The Firmware record and the files beside the program.                   *)
(***************************************************************************)
\* full_filepath(bintype) for the five bintypes the code uses
Artifacts == {"partitions", "spiffs", "bootloader", "otadata", "firmware"}
NoFile == "<no file>"
\* what a file can hold
Contents == {"A", "B"}
\* fhash.hash_of_file: a collision-free digest of the file's bytes
hash_of_file(content) == "sha256:" \o content
Checksums == {hash_of_file(c) : c \in Contents}

NoUrl == ""
ShortUrl == "http:"
Url == "http://a.b/file.bin"
NoAddress == ""
Address == "0x8000"

\* the DeviceFamily fields download_to_file reads: a family with a bootloader
\* and OTA data, and a family with neither
DownloadFamilies ==
    {[download_url_bootloader |-> Url, checksum_bootloader |-> hash_of_file("A"),
      download_url_otadata |-> Url, checksum_otadata |-> hash_of_file("B"),
      otadata_address |-> Address],
     [download_url_bootloader |-> NoUrl, checksum_bootloader |-> "",
      download_url_otadata |-> NoUrl, checksum_otadata |-> "",
      otadata_address |-> NoAddress]}

\* the Firmware fields download_to_file and pre_flash_web_verify read
FirmwareRecords ==
    [download_url : {ShortUrl, Url}, checksum : Checksums,
     download_url_partitions : {NoUrl, Url}, checksum_partitions : {hash_of_file("A")},
     download_url_spiffs : {Url}, checksum_spiffs : {hash_of_file("B")},
     spiffs_address : {NoAddress, Address},
     family : DownloadFamilies]

\* what one requests.get(url) can do: raise, or deliver a body
NetError == "<requests.get raised>"
NoRequest == "<no request>"
Served == Contents \cup {NetError}

VARIABLES
    files,      \* bintype -> content of <bintype>.bin, or NoFile
    self,       \* the Firmware record the methods are called on
    call,       \* the last Firmware method call: arguments, outcome, fetches made;
                \* seq tells a call from the one before it (it alternates)
    verify      \* the last pre_flash_web_verify call: response and outcome

firmwareVars == <<files, self, call, verify>>

VARIABLES
    query       \* the last query made of the FirmwareList since it was last loaded or
                \* cleansed: method, arguments and return value

vars == <<catalogVars, firmwareVars, query>>

(***************************************************************************)
(* download_file.  served is what requests.get delivers if it is called.   *)
(***************************************************************************)
\* a download whose checksum fails is left in place
download_file_keeps_mismatch(f, bintype, url, checksum, check_checksum, force_download, served) ==
    LET exists == f[bintype] # NoFile
        removed == [f EXCEPT ![bintype] = NoFile]
        written == [f EXCEPT ![bintype] = served]
    IN IF exists /\ ~force_download /\ checksum = hash_of_file(f[bintype])
       THEN [files |-> f, ret |-> "True", requests |-> 0, served |-> NoRequest]
       ELSE IF Len(url) < 12
       THEN [files |-> removed, ret |-> "False", requests |-> 0, served |-> NoRequest]
       ELSE IF served = NetError
       THEN [files |-> removed, ret |-> "raise", requests |-> 1, served |-> NetError]
       ELSE IF check_checksum /\ checksum # hash_of_file(written[bintype])
       THEN [files |-> written, ret |-> "False", requests |-> 1, served |-> served]
       ELSE [files |-> written, ret |-> "True", requests |-> 1, served |-> served]

\* the check of an existing file left out: every call downloads
download_file_ignores_cache(f, bintype, url, checksum, check_checksum, force_download, served) ==
    LET removed == [f EXCEPT ![bintype] = NoFile]
        written == [f EXCEPT ![bintype] = served]
    IN IF Len(url) < 12
       THEN [files |-> removed, ret |-> "False", requests |-> 0, served |-> NoRequest]
       ELSE IF served = NetError
       THEN [files |-> removed, ret |-> "raise", requests |-> 1, served |-> NetError]
       ELSE IF check_checksum /\ checksum # hash_of_file(written[bintype])
       THEN [files |-> removed, ret |-> "False", requests |-> 1, served |-> served]
       ELSE [files |-> written, ret |-> "True", requests |-> 1, served |-> served]

\* the test of the URL's length left out
download_file_any_url(f, bintype, url, checksum, check_checksum, force_download, served) ==
    LET exists == f[bintype] # NoFile
        removed == [f EXCEPT ![bintype] = NoFile]
        written == [f EXCEPT ![bintype] = served]
    IN IF exists /\ ~force_download /\ checksum = hash_of_file(f[bintype])
       THEN [files |-> f, ret |-> "True", requests |-> 0, served |-> NoRequest]
       ELSE IF served = NetError
       THEN [files |-> removed, ret |-> "raise", requests |-> 1, served |-> NetError]
       ELSE IF check_checksum /\ checksum # hash_of_file(written[bintype])
       THEN [files |-> removed, ret |-> "False", requests |-> 1, served |-> served]
       ELSE [files |-> written, ret |-> "True", requests |-> 1, served |-> served]

\* the check after the download left out
download_file_no_verify(f, bintype, url, checksum, check_checksum, force_download, served) ==
    LET exists == f[bintype] # NoFile
        removed == [f EXCEPT ![bintype] = NoFile]
        written == [f EXCEPT ![bintype] = served]
    IN IF exists /\ ~force_download /\ checksum = hash_of_file(f[bintype])
       THEN [files |-> f, ret |-> "True", requests |-> 0, served |-> NoRequest]
       ELSE IF Len(url) < 12
       THEN [files |-> removed, ret |-> "False", requests |-> 0, served |-> NoRequest]
       ELSE IF served = NetError
       THEN [files |-> removed, ret |-> "raise", requests |-> 1, served |-> NetError]
       ELSE [files |-> written, ret |-> "True", requests |-> 1, served |-> served]

download_file(f, bintype, url, checksum, check_checksum, force_download, served) ==
    LET exists == f[bintype] # NoFile
        removed == [f EXCEPT ![bintype] = NoFile]
        written == [f EXCEPT ![bintype] = served]
    IN IF exists /\ ~force_download /\ checksum = hash_of_file(f[bintype])
       THEN [files |-> f, ret |-> "True", requests |-> 0, served |-> NoRequest]
       ELSE IF Len(url) < 12
       THEN [files |-> removed, ret |-> "False", requests |-> 0, served |-> NoRequest]
       ELSE IF served = NetError
       THEN [files |-> removed, ret |-> "raise", requests |-> 1, served |-> NetError]
       ELSE IF check_checksum /\ checksum # hash_of_file(written[bintype])
       THEN [files |-> removed, ret |-> "False", requests |-> 1, served |-> served]
       ELSE [files |-> written, ret |-> "True", requests |-> 1, served |-> served]

(***************************************************************************)
(* download_to_file: the fetches in the order of the code.                 *)
(***************************************************************************)
Fetch(bintype, url, checksum) == [bintype |-> bintype, url |-> url, checksum |-> checksum]

download_steps(fw) ==
    (IF Len(fw.download_url_partitions) > 12
     THEN <<Fetch("partitions", fw.download_url_partitions, fw.checksum_partitions)>> ELSE <<>>)
    \o (IF Len(fw.download_url_spiffs) > 12 /\ Len(fw.spiffs_address) > 2
        THEN <<Fetch("spiffs", fw.download_url_spiffs, fw.checksum_spiffs)>> ELSE <<>>)
    \o (IF Len(fw.family.download_url_bootloader) > 12
        THEN <<Fetch("bootloader", fw.family.download_url_bootloader,
                     fw.family.checksum_bootloader)>> ELSE <<>>)
    \o (IF Len(fw.family.download_url_otadata) > 12 /\ Len(fw.family.otadata_address) > 2
        THEN <<Fetch("otadata", fw.family.download_url_otadata, fw.family.checksum_otadata)>>
        ELSE <<>>)
    \o <<Fetch("firmware", fw.download_url, fw.checksum)>>

LogEntry(step, r) ==
    [bintype |-> step.bintype, url |-> step.url, checksum |-> step.checksum,
     ret |-> r.ret, requests |-> r.requests, served |-> r.served]

\* the outcomes of running the fetches `steps` from the files f: each fetch but
\* the last returns from download_to_file unless it returned True; the last
\* one's result is download_to_file's result.
RECURSIVE run_fetches(_, _, _, _, _)

\* a fetch that returned False does not end download_to_file
RECURSIVE run_fetches_goes_on(_, _, _, _, _)
run_fetches_goes_on(f, steps, log, check_checksum, force_download) ==
    LET step == Head(steps)
        results == {download_file(f, step.bintype, step.url, step.checksum,
                                  check_checksum, force_download, served) : served \in Served}
    IN UNION {
         IF Len(steps) = 1 \/ r.ret = "raise"
         THEN {[files |-> r.files, ret |-> r.ret, log |-> Append(log, LogEntry(step, r))]}
         ELSE run_fetches_goes_on(r.files, Tail(steps), Append(log, LogEntry(step, r)),
                                  check_checksum, force_download)
         : r \in results }

run_fetches(f, steps, log, check_checksum, force_download) ==
    LET step == Head(steps)
        results == {download_file(f, step.bintype, step.url, step.checksum,
                                  check_checksum, force_download, served) : served \in Served}
    IN UNION {
         IF Len(steps) = 1 \/ r.ret = "raise"
         THEN {[files |-> r.files, ret |-> r.ret, log |-> Append(log, LogEntry(step, r))]}
         ELSE IF r.ret # "True"
         THEN {[files |-> r.files, ret |-> "False", log |-> Append(log, LogEntry(step, r))]}
         ELSE run_fetches(r.files, Tail(steps), Append(log, LogEntry(step, r)),
                          check_checksum, force_download)
         : r \in results }

\* the main firmware image fetched only when no other part is
download_to_file_parts_only(f, fw, check_checksum, force_download) ==
    LET steps == download_steps(fw)
    IN run_fetches(f, IF Len(steps) > 1 THEN SubSeq(steps, 1, Len(steps) - 1) ELSE steps,
                   <<>>, check_checksum, force_download)

download_to_file(f, fw, check_checksum, force_download) ==
    run_fetches(f, download_steps(fw), <<>>, check_checksum, force_download)

(***************************************************************************)
(* pre_flash_web_verify                                                    *)
(***************************************************************************)
\* kind "network_error": requests.post raised; "not_json": r.json() raised;
\* "json": a dict, with or without the keys status and message
VerifyResponses ==
    {[kind |-> k, has_status |-> FALSE, status |-> "", has_message |-> FALSE, message |-> ""]
        : k \in {"network_error", "not_json"}}
    \cup [kind : {"json"}, has_status : {TRUE}, status : {"success", "error"},
          has_message : {TRUE}, message : Checksums \cup {""}]
    \cup [kind : {"json"}, has_status : {FALSE}, status : {""},
          has_message : {TRUE}, message : Checksums]
    \cup [kind : {"json"}, has_status : {TRUE}, status : {"success", "error"},
          has_message : {FALSE}, message : {""}]

\* the status of the response not looked at
pre_flash_web_verify_ignores_status(fw, response) ==
    IF response.kind # "json" THEN "raise"
    ELSE IF ~response.has_status THEN "raise"
    ELSE IF ~response.has_message THEN "raise"
    ELSE IF response.message = fw.checksum THEN "True" ELSE "False"

pre_flash_web_verify(fw, response) ==
    IF response.kind # "json" THEN "raise"
    ELSE IF ~response.has_status THEN "raise"
    ELSE IF response.status = "success"
         THEN IF ~response.has_message THEN "raise"
              ELSE IF response.message = fw.checksum THEN "True" ELSE "False"
         ELSE "False"

(***************************************************************************)
(* remove_downloaded_firmware                                              *)
(***************************************************************************)
firmware_types == {"bootloader", "firmware", "partitions", "spiffs", "otadata"}

\* the OTA data file forgotten in the list of types
remove_downloaded_firmware_without_otadata(f) ==
    [files |-> [a \in DOMAIN f |->
                   IF a \in firmware_types \ {"otadata"} /\ f[a] # NoFile THEN NoFile ELSE f[a]],
     ret |-> "None"]

\* os.remove is called only for a file that exists: nothing is raised
remove_downloaded_firmware(f) ==
    [files |-> [a \in DOMAIN f |->
                   IF a \in firmware_types /\ f[a] # NoFile THEN NoFile ELSE f[a]],
     ret |-> "None"]

(***************************************************************************)
(* Initial states.                                                         *)
(***************************************************************************)
NoQuery == [op |-> "none", project_id |-> NoneArg, family_id |-> NoneArg,
            str |-> "", ret |-> RetNone]
NoCall == [op |-> "none", seq |-> 0, check_checksum |-> TRUE, force_download |-> FALSE,
           ret |-> "None", log |-> <<>>]
NoVerify == [response |-> CHOOSE r \in VerifyResponses : r.kind = "network_error",
             ret |-> "None"]

FirmwareInit ==
    /\ files = [a \in Artifacts |-> NoFile]
    /\ self = CHOOSE fw \in FirmwareRecords : TRUE
    /\ call = NoCall
    /\ verify = NoVerify
    /\ query = NoQuery

\* a FirmwareList as constructed; no Firmware method is called
InitCatalog == CatalogInit /\ FirmwareInit

\* any Firmware record, any files beside the program
InitDownload ==
    /\ CatalogInit
    /\ files \in [Artifacts -> Contents \cup {NoFile}]
    /\ self \in FirmwareRecords
    /\ call = NoCall
    /\ verify = NoVerify
    /\ query = NoQuery

InitVerify ==
    /\ CatalogInit
    /\ files = [a \in Artifacts |-> NoFile]
    /\ self \in FirmwareRecords
    /\ call = NoCall
    /\ verify = NoVerify
    /\ query = NoQuery

(***************************************************************************)
(* FirmwareList actions.                                                   *)
(***************************************************************************)
Cleanse ==
    /\ pc = "idle"
    /\ Projects' = cleanse_projects(Projects)
    /\ cyclePre' = [Catalog EXCEPT !.Projects = cleanse_projects(Projects)]
    /\ lastOp' = "cleanse_projects"
    /\ lastRet' = "None"
    /\ UNCHANGED <<DeviceFamilies, valid_family_ids, pc, load_esptool_only, cycles,
                   excluded_family_ids, stage_log, successes, fresh>>
    /\ query' = NoQuery
    /\ UNCHANGED firmwareVars

(***************************************************************************)
(* load_from_website: the call and stage 1, then stage 2, then stage 3     *)
(* with cleanse_projects and the return.  While pc # "idle" nothing else   *)
(* runs (the program is single-threaded).                                  *)
(***************************************************************************)
LoadFromWebsite_Projects ==
    /\ pc = "idle"
    /\ cycles' = cycles + 1
    /\ \E response \in ProjectResponses, esptool_only \in BOOLEAN :
          LET r == load_projects_from_website(Catalog, response)
          IN /\ SetCatalog(r.cat)
             /\ load_esptool_only' = esptool_only
             /\ pc' = next_stage("projects", r.ret)
             /\ lastRet' = IF pc' = "idle" THEN (IF r.ret = "raise" THEN "raise" ELSE "False")
                            ELSE "None"
             /\ stage_log' = <<StageEntry("load_projects_from_website", response, r.ret)>>
             /\ LET n == load_projects_from_website(EmptyCatalog, response)
                IN fresh' = [cat |-> n.cat, ok |-> n.ret = "True"]
    /\ cyclePre' = Catalog
    /\ lastOp' = "load_from_website"
    /\ excluded_family_ids' = {}
    /\ UNCHANGED successes
    /\ query' = NoQuery
    /\ UNCHANGED firmwareVars

\* the program's own call (__main__): load_from_website on a new FirmwareList
Main == cycles = 0 /\ LoadFromWebsite_Projects

\* a refresh: load_from_website called again on a FirmwareList whose calls so
\* far have all returned True
Refresh == cycles > 0 /\ cycles < MaxCycles /\ successes = cycles /\ LoadFromWebsite_Projects

LoadFromWebsite_Families ==
    /\ pc = "families"
    /\ \E response \in FamilyResponses :
          LET r == load_families_from_website(Catalog, response, load_esptool_only)
          IN /\ SetCatalog(r.cat)
             /\ pc' = next_stage("families", r.ret)
             /\ lastRet' = IF pc' = "idle" THEN (IF r.ret = "raise" THEN "raise" ELSE "False")
                            ELSE "None"
             /\ stage_log' = Append(stage_log,
                                    StageEntry("load_families_from_website", response, r.ret))
             /\ LET n == load_families_from_website(fresh.cat, response, load_esptool_only)
                IN fresh' = IF fresh.ok THEN [cat |-> n.cat, ok |-> n.ret = "True"] ELSE fresh
             /\ excluded_family_ids' = esptool_excluded(response.data, load_esptool_only)
    /\ UNCHANGED <<load_esptool_only, cyclePre, lastOp, cycles, successes>>
    /\ query' = NoQuery
    /\ UNCHANGED firmwareVars

LoadFromWebsite_Firmware ==
    /\ pc = "firmware"
    /\ \E response \in FirmwareResponses :
          LET r == load_firmware_from_website(Catalog, response)
              cleanse == next_stage("firmware", r.ret) = "cleanse"
              done == IF cleanse
                      THEN [r.cat EXCEPT !.Projects = cleanse_projects(@)]
                      ELSE r.cat
              entry == StageEntry("load_firmware_from_website", response, r.ret)
          IN /\ SetCatalog(done)
             /\ lastRet' = IF cleanse THEN "True"
                            ELSE IF r.ret = "raise" THEN "raise" ELSE "False"
             /\ cyclePre' = IF cleanse THEN done ELSE cyclePre
             /\ stage_log' =
                   IF cleanse
                   THEN stage_log \o <<entry, [stage |-> "cleanse_projects", ret |-> "None",
                                               request_ok |-> TRUE, has_rows |-> FALSE]>>
                   ELSE Append(stage_log, entry)
             /\ successes' = IF cleanse THEN successes + 1 ELSE successes
             /\ LET n == load_firmware_from_website(fresh.cat, response)
                IN fresh' = IF ~fresh.ok THEN fresh
                            ELSE IF n.ret = "True"
                            THEN [cat |-> [n.cat EXCEPT !.Projects = cleanse_projects(@)],
                                  ok |-> TRUE]
                            ELSE [cat |-> n.cat, ok |-> FALSE]
    /\ pc' = "idle"
    /\ UNCHANGED <<load_esptool_only, lastOp, cycles, excluded_family_ids>>
    /\ query' = NoQuery
    /\ UNCHANGED firmwareVars

(***************************************************************************)
(* Firmware actions.                                                       *)
(***************************************************************************)
DownloadToFile ==
    /\ \E check_checksum \in BOOLEAN, force_download \in BOOLEAN :
          \E r \in download_to_file(files, self, check_checksum, force_download) :
             /\ files' = r.files
             /\ call' = [op |-> "download_to_file", seq |-> 1 - call.seq,
                         check_checksum |-> check_checksum, force_download |-> force_download,
                         ret |-> r.ret, log |-> r.log]
    /\ UNCHANGED <<self, verify>>
    /\ UNCHANGED catalogVars
    /\ UNCHANGED query

RemoveDownloadedFirmware ==
    /\ LET r == remove_downloaded_firmware(files)
       IN /\ files' = r.files
          /\ call' = [NoCall EXCEPT !.op = "remove_downloaded_firmware", !.seq = 1 - call.seq,
                                    !.ret = r.ret]
    /\ UNCHANGED <<self, verify>>
    /\ UNCHANGED catalogVars
    /\ UNCHANGED query

PreFlashWebVerify ==
    /\ \E response \in VerifyResponses :
          verify' = [response |-> response, ret |-> pre_flash_web_verify(self, response)]
    /\ UNCHANGED <<files, self, call>>
    /\ UNCHANGED catalogVars
    /\ UNCHANGED query

(***************************************************************************)
(* The queries, made of a FirmwareList on which no load is running.        *)
(***************************************************************************)
\* the arguments tried: an id the service uses, an id it does not, and None;
\* the display string of a project, a family or a firmware, and one of none
QueryIds == {IdArg(1), IdArg(9), NoneArg}
ProjectStrings == {"ProjectA", "no such name"}
FamilyStrings == {"FamA", "no such name"}
FirmwareStrings == {"FW1 - 1.0", "no such name"}

Queried(op, project_id, family_id, str, r) ==
    /\ pc = "idle"
    /\ SetCatalog(r.cat)
    /\ query' = [op |-> op, project_id |-> project_id,
                 family_id |-> family_id, str |-> str, ret |-> r.ret]
    /\ UNCHANGED <<pc, load_esptool_only, cyclePre, lastOp, lastRet, cycles,
                   excluded_family_ids, stage_log, successes, fresh>>
    /\ UNCHANGED firmwareVars

GetProjectList ==
    Queried("get_project_list", NoneArg, NoneArg, "", get_project_list(Catalog))

GetProjectId ==
    \E project_str \in ProjectStrings :
        Queried("get_project_id", NoneArg, NoneArg, project_str,
                get_project_id(Catalog, project_str))

GetDeviceFamilyId ==
    \E project_id \in QueryIds, device_family_str \in FamilyStrings :
        Queried("get_device_family_id", project_id, NoneArg, device_family_str,
                get_device_family_id(Catalog, project_id, device_family_str))

GetDeviceFamilyList ==
    \E selected_project_id \in QueryIds :
        Queried("get_device_family_list", selected_project_id, NoneArg, "",
                get_device_family_list(Catalog, selected_project_id))

GetFirmwareList ==
    \E selected_project_id \in QueryIds, selected_family_id \in QueryIds :
        Queried("get_firmware_list", selected_project_id, selected_family_id, "",
                get_firmware_list(Catalog, selected_project_id, selected_family_id))

GetFirmware ==
    \E project_id \in QueryIds, family_id \in QueryIds, firmware_str \in FirmwareStrings :
        Queried("get_firmware", project_id, family_id, firmware_str,
                get_firmware(Catalog, project_id, family_id, firmware_str))

(***************************************************************************)
(* Specifications.                                                         *)
(***************************************************************************)
\* the catalog of a new FirmwareList loaded once, as the program does
NextCatalog ==
    \/ Main
    \/ LoadFromWebsite_Families
    \/ LoadFromWebsite_Firmware
    \/ Cleanse

SpecCatalog == InitCatalog /\ [][NextCatalog]_vars

\* load_from_website called again and again on the same FirmwareList
NextRefresh ==
    \/ Main
    \/ Refresh
    \/ LoadFromWebsite_Families
    \/ LoadFromWebsite_Firmware

SpecRefresh == InitCatalog /\ [][NextRefresh]_vars

\* the catalog loaded once, and queried before and after
NextQuery ==
    \/ NextCatalog
    \/ GetProjectList
    \/ GetProjectId
    \/ GetDeviceFamilyId
    \/ GetDeviceFamilyList
    \/ GetFirmwareList
    \/ GetFirmware

SpecQuery == InitCatalog /\ [][NextQuery]_vars

\* the downloads of one Firmware record into the program's directory
NextDownload ==
    \/ DownloadToFile
    \/ RemoveDownloadedFirmware

SpecDownload == InitDownload /\ [][NextDownload]_vars

\* the verification before flashing
NextVerify == PreFlashWebVerify

SpecVerify == InitVerify /\ [][NextVerify]_vars

(***************************************************************************)
(* The claims.                                                             *)
(***************************************************************************)
\* cleanse_projects was the last thing to change Projects
CleanseRan ==
    \/ lastOp = "cleanse_projects"
    \/ lastOp = "load_from_website" /\ pc = "idle" /\ lastRet = "True"

\* C1: after cleanse_projects every project left in Projects has at least one
\* device family, and every device family of a project has at least one firmware.
C1_CleansedBranchesNonEmpty ==
    CleanseRan =>
        \A p \in DOMAIN Projects :
            /\ DOMAIN Projects[p].device_families # {}
            /\ \A f \in DOMAIN Projects[p].device_families :
                  Len(Projects[p].device_families[f].firmware) > 0

\* cleanse_projects ran on its own, a project is left, and a family of the
\* registry is missing from a project: its copy there had no firmware
C1_Witness ==
    /\ lastOp = "cleanse_projects"
    /\ DOMAIN Projects # {}
    /\ \E p \in DOMAIN Projects :
          \E f \in DOMAIN DeviceFamilies : f \notin DOMAIN Projects[p].device_families

\* load_from_website has returned without success (False or an exception)
CycleFailed == lastOp = "load_from_website" /\ pc = "idle" /\ lastRet # "True"

\* C2: when a load_from_website call fails, Projects, DeviceFamilies and
\* valid_family_ids are what they were when the call started.
C2_FailedCycleLeavesCatalog == CycleFailed => Catalog = cyclePre

AllFirmware ==
    UNION {{DeviceFamilies[f].firmware[i] : i \in 1..Len(DeviceFamilies[f].firmware)}
              : f \in DOMAIN DeviceFamilies}
    \cup UNION {UNION {{Projects[p].device_families[f].firmware[i]
                            : i \in 1..Len(Projects[p].device_families[f].firmware)}
                          : f \in DOMAIN Projects[p].device_families}
                   : p \in DOMAIN Projects}

\* C8: in a FirmwareList loaded for the first time with load_esptool_only set,
\* no family with another flash method than "esptool", and no family id the
\* filter skipped, is in DeviceFamilies, in valid_family_ids or in a project's
\* device_families, and no firmware of any firmware list has such a family id.
C8_EsptoolOnlyExcludes ==
    (cycles = 1 /\ load_esptool_only) =>
        /\ \A f \in DOMAIN DeviceFamilies :
              DeviceFamilies[f].flash_method = "esptool" /\ f \notin excluded_family_ids
        /\ \A i \in 1..Len(valid_family_ids) :
              /\ valid_family_ids[i] \notin excluded_family_ids
              /\ valid_family_ids[i] \in DOMAIN DeviceFamilies
        /\ \A p \in DOMAIN Projects : \A f \in DOMAIN Projects[p].device_families :
              /\ Projects[p].device_families[f].flash_method = "esptool"
              /\ f \notin excluded_family_ids
        /\ \A fw \in AllFirmware :
              /\ fw.family_id \notin excluded_family_ids
              /\ InList(fw.family_id, valid_family_ids)

\* the first load, esptool only, has succeeded; it skipped a family row and
\* loaded a firmware
C8_Witness ==
    /\ cycles = 1 /\ load_esptool_only
    /\ lastOp = "load_from_website" /\ pc = "idle" /\ lastRet = "True"
    /\ excluded_family_ids # {}
    /\ DOMAIN Projects # {}

IsDownload == call.op = "download_to_file"
Fetches == 1..Len(call.log)

\* C3: a download_file call with check_checksum set that downloaded a body
\* whose digest is not the expected checksum returned False, and the file is
\* not there afterwards.
C3_MismatchDeletesAndFails ==
    (IsDownload /\ call.check_checksum) =>
        \A i \in Fetches :
            (call.log[i].requests = 1 /\ call.log[i].served \in Contents
                /\ hash_of_file(call.log[i].served) # call.log[i].checksum)
            => (call.log[i].ret = "False" /\ files[call.log[i].bintype] = NoFile)

C3_Witness ==
    /\ IsDownload /\ call.check_checksum
    /\ \E i \in Fetches :
          /\ call.log[i].served \in Contents
          /\ hash_of_file(call.log[i].served) # call.log[i].checksum
          /\ call.log[i].ret = "False"

\* the file of a fetch had the expected digest when download_to_file was called
CachedBefore(e) == files[e.bintype] # NoFile /\ hash_of_file(files[e.bintype]) = e.checksum

\* C4, as a step: a download_file call with force_download unset that finds a
\* file with the expected digest returns True, makes no request and leaves the
\* file as it is.
C4_CachedStep ==
    (call'.op = "download_to_file" /\ ~call'.force_download) =>
        \A i \in 1..Len(call'.log) :
            CachedBefore(call'.log[i]) =>
                /\ call'.log[i].ret = "True"
                /\ call'.log[i].requests = 0
                /\ files'[call'.log[i].bintype] = files[call'.log[i].bintype]

\* C4, as a step: a second download_to_file call with the arguments of the
\* first, force_download unset, made when the first has returned True and has
\* left every file it fetched with the expected digest, makes no request.
C4_SecondCallStep ==
    (/\ call.op = "download_to_file" /\ call.ret = "True" /\ ~call.force_download
     /\ \A i \in 1..Len(call.log) : CachedBefore(call.log[i])
     /\ call'.op = "download_to_file"
     /\ call'.check_checksum = call.check_checksum
     /\ call'.force_download = call.force_download)
    => (/\ call'.ret = "True"
        /\ \A i \in 1..Len(call'.log) : call'.log[i].requests = 0
        /\ files' = files)

\* C4: both hold of every step.
C4_CachedFetchNoRequest == [][C4_CachedStep /\ C4_SecondCallStep]_vars

\* a second call in a row (seq is 0 again) served every fetch from the files
\* the first one left
C4_Witness ==
    /\ IsDownload /\ call.seq = 0 /\ ~call.force_download /\ call.ret = "True"
    /\ Len(call.log) > 1
    /\ \A i \in Fetches : call.log[i].requests = 0

\* C5 as claimed: a download_file call with a URL of fewer than 12 characters
\* returns False and makes no request, whatever the files and the flags.
C5_ShortUrlAlwaysFails ==
    IsDownload =>
        \A i \in Fetches :
            Len(call.log[i].url) < 12 => (call.log[i].ret = "False" /\ call.log[i].requests = 0)

\* C5 amended, as a step: such a call makes no request; it returns True, and
\* leaves the file, when force_download is unset and the file there has the
\* expected digest, and returns False in every other case.
C5_ShortUrlStep ==
    call'.op = "download_to_file" =>
        \A i \in 1..Len(call'.log) :
            Len(call'.log[i].url) < 12 =>
                /\ call'.log[i].requests = 0
                /\ IF ~call'.force_download /\ CachedBefore(call'.log[i])
                   THEN /\ call'.log[i].ret = "True"
                        /\ files'[call'.log[i].bintype] = files[call'.log[i].bintype]
                   ELSE call'.log[i].ret = "False"

C5_ShortUrlFailsUnlessCached == [][C5_ShortUrlStep]_vars

C5_Witness ==
    /\ IsDownload
    /\ \E i \in Fetches :
          Len(call.log[i].url) < 12 /\ call.log[i].ret = "False" /\ call.log[i].requests = 0

\* the place of a bintype in the order of download_to_file
Rank(bintype) ==
    CASE bintype = "partitions" -> 1
      [] bintype = "spiffs" -> 2
      [] bintype = "bootloader" -> 3
      [] bintype = "otadata" -> 4
      [] bintype = "firmware" -> 5

\* the presence condition of a part: its URL is given and, for SPIFFS and OTA
\* data, its flash address too; the main image has none
Applies(fw, bintype) ==
    CASE bintype = "partitions" -> fw.download_url_partitions # NoUrl
      [] bintype = "spiffs" -> fw.download_url_spiffs # NoUrl /\ fw.spiffs_address # NoAddress
      [] bintype = "bootloader" -> fw.family.download_url_bootloader # NoUrl
      [] bintype = "otadata" ->
            fw.family.download_url_otadata # NoUrl /\ fw.family.otadata_address # NoAddress
      [] bintype = "firmware" -> TRUE

\* C6: the fetches of a download_to_file call are made in the order
\* partitions, SPIFFS, bootloader, OTA data, main firmware; a part is fetched
\* only if its presence condition holds, none that applies is passed over, and
\* a fetch that returned False is the last one, download_to_file returning False.
C6_FixedOrderShortCircuit ==
    IsDownload =>
        /\ \A i, j \in Fetches : i < j => Rank(call.log[i].bintype) < Rank(call.log[j].bintype)
        /\ \A i \in Fetches : Applies(self, call.log[i].bintype)
        /\ \A i \in Fetches : \A a \in Artifacts :
              (Applies(self, a) /\ Rank(a) < Rank(call.log[i].bintype))
                  => \E j \in Fetches : call.log[j].bintype = a
        /\ \A i \in Fetches :
              call.log[i].ret = "False" => (i = Len(call.log) /\ call.ret = "False")

\* a part's fetch returned False and the main firmware was not fetched
C6_Witness ==
    /\ IsDownload /\ call.ret = "False"
    /\ Len(call.log) > 1
    /\ call.log[Len(call.log)].bintype = "otadata"
    /\ \A i \in Fetches : call.log[i].bintype # "firmware"

\* C7: download_to_file returns True only if its last fetch is that of the main
\* firmware and returned True; and when no fetch of another part failed, the
\* main firmware is fetched, with the URL and checksum the record has.
C7_MainAlwaysAttempted ==
    IsDownload =>
        /\ call.ret = "True" =>
              /\ Len(call.log) > 0
              /\ call.log[Len(call.log)].bintype = "firmware"
              /\ call.log[Len(call.log)].ret = "True"
        /\ (\A i \in Fetches : call.log[i].bintype # "firmware" => call.log[i].ret = "True")
              => \E i \in Fetches :
                    /\ call.log[i].bintype = "firmware"
                    /\ call.log[i].url = self.download_url
                    /\ call.log[i].checksum = self.checksum

\* every other part was fetched, then the main firmware with its short URL
C7_Witness ==
    /\ IsDownload
    /\ Len(call.log) = 5
    /\ call.log[5].bintype = "firmware" /\ Len(call.log[5].url) < 12
    /\ call.log[5].ret = "False"

Verified == verify.ret # "None"
PositiveResponse ==
    /\ verify.response.kind = "json"
    /\ verify.response.has_status /\ verify.response.status = "success"
    /\ verify.response.has_message /\ verify.response.message = self.checksum

\* C9: pre_flash_web_verify returns True exactly when the response has the
\* status "success" and the record's checksum as its message; it returns False
\* when the response has another status, whatever its message is.
C9_VerifyTrueIffSuccessAndChecksum ==
    Verified =>
        /\ (verify.ret = "True") <=> PositiveResponse
        /\ (verify.response.kind = "json" /\ verify.response.has_status
               /\ verify.response.status # "success") => verify.ret = "False"

\* the status is not "success" and the message is the record's checksum
C9_Witness ==
    /\ verify.ret = "False"
    /\ verify.response.kind = "json" /\ verify.response.has_status
    /\ verify.response.status = "error"
    /\ verify.response.has_message /\ verify.response.message = self.checksum

\* C10: pre_flash_web_verify yields False when the request fails, the response
\* is not JSON, or it lacks the status or the message.
C10_VerifyFailureYieldsFalse ==
    (Verified /\ (\/ verify.response.kind # "json"
                  \/ ~verify.response.has_status
                  \/ ~verify.response.has_message))
        => verify.ret = "False"

\* load_from_website has returned (with a value or an exception)
CycleOver == lastOp = "load_from_website" /\ pc = "idle"
StagesRun == 1..Len(stage_log)

\* C11: a load stage whose request failed (requests.get or response.json
\* raised) returned False, and so did load_from_website; neither raised.
C11_RequestFailureReturnsFalse ==
    \A i \in StagesRun :
        ~stage_log[i].request_ok =>
            /\ stage_log[i].ret = "False"
            /\ CycleOver => lastRet = "False"

\* the order of the stages in load_from_website
StageOrder == <<"load_projects_from_website", "load_families_from_website",
                "load_firmware_from_website", "cleanse_projects">>

\* C12: the stages a load_from_website call has run are the first ones of
\* loadProjects, loadFamilies, loadFirmware, cleanse in this order; each was
\* started after the one before it returned True; the call is at the stage
\* after the last one run; and when it has returned True all four have run,
\* the three loads returned True and Projects is cleansed.
C12_StagesInOrder ==
    /\ Len(stage_log) <= 4
    /\ \A i \in StagesRun : stage_log[i].stage = StageOrder[i]
    /\ \A i \in StagesRun : i > 1 => stage_log[i - 1].ret = "True"
    /\ pc = "families" => Len(stage_log) = 1 /\ stage_log[1].ret = "True"
    /\ pc = "firmware" => Len(stage_log) = 2 /\ stage_log[2].ret = "True"
    /\ (CycleOver /\ lastRet = "True") =>
          /\ Len(stage_log) = 4
          /\ \A i \in 1..3 : stage_log[i].ret = "True"
          /\ Projects = cleanse_projects(Projects)
    /\ (CycleOver /\ lastRet # "True") =>
          /\ Len(stage_log) \in 1..3
          /\ stage_log[Len(stage_log)].ret # "True"

\* a call has returned True and left a project
C12_Witness ==
    /\ CycleOver /\ lastRet = "True"
    /\ Len(stage_log) = 4
    /\ DOMAIN Projects # {}

\* C17: a load stage whose request delivered rows returned True, whatever
\* the rows are: a row that cannot be processed does not end the stage, and
\* no exception leaves it.
C17_BadRowDoesNotAbort ==
    \A i \in StagesRun :
        (stage_log[i].request_ok /\ stage_log[i].has_rows) => stage_log[i].ret = "True"

\* the projects whose device_families have the family id f
ProjectsWith(f) == {p \in DOMAIN Projects : f \in DOMAIN Projects[p].device_families}

\* the projects of the firmware in the registry's sequence of family f
ProjectsOfFirmware(f) ==
    {DeviceFamilies[f].firmware[i].project_id : i \in 1..Len(DeviceFamilies[f].firmware)}

\* C13 as claimed: after a load_from_website call that returned True every
\* family id of DeviceFamilies is in the device_families of exactly one project.
C13_FamilyInExactlyOneProject ==
    (CycleOver /\ lastRet = "True") =>
        \A f \in DOMAIN DeviceFamilies : Cardinality(ProjectsWith(f)) = 1

\* C13 amended: after a load_from_website call that returned True the family
\* ids in a project's device_families are ids of DeviceFamilies, and a family
\* id is in the device_families of exactly the projects that have a firmware
\* in the registry's sequence of that family (none, one or several projects).
C13_FamilyInProjectsWithFirmware ==
    (CycleOver /\ lastRet = "True") =>
        /\ \A p \in DOMAIN Projects : DOMAIN Projects[p].device_families \subseteq DOMAIN DeviceFamilies
        /\ \A f \in DOMAIN DeviceFamilies : ProjectsWith(f) = ProjectsOfFirmware(f)

\* firmware rows of two projects named the same family: both projects have it
C13_Witness ==
    /\ CycleOver /\ lastRet = "True"
    /\ \E f \in DOMAIN DeviceFamilies : Cardinality(ProjectsWith(f)) = 2

\* C14: after two load_from_website calls on the same FirmwareList that both
\* returned True, Projects, DeviceFamilies (with the firmware sequences) and
\* valid_family_ids are what one load_from_website with the responses of the
\* second call leaves in a new FirmwareList.
C14_RefreshRebuilds ==
    (CycleOver /\ lastRet = "True" /\ cycles = 2 /\ successes = 2 /\ fresh.ok) =>
        Catalog = fresh.cat

\* the step is a query (a load or a cleanse leaves query.op = "none")
IsQuery == query'.op # "none"

\* the project and the family a query names are in the catalog
KnownProject(q) == InDict(q.project_id, Projects)
KnownFamily(q) ==
    KnownProject(q) /\ InDict(q.family_id, Projects[q.project_id.id].device_families)

\* what each query returns when the catalog has not what it asks for
AbsentResult(q) ==
    CASE q.op = "get_project_list" ->
            DOMAIN Projects = {} =>
                q.ret.kind = "list" /\ Cardinality(q.ret.value) = 1
                    /\ q.ret.value \cap {Project_str(Projects[p]) : p \in DOMAIN Projects} = {}
      [] q.op = "get_project_id" ->
            (\A p \in DOMAIN Projects : Project_str(Projects[p]) # q.str) => q.ret = RetNone
      [] q.op = "get_device_family_id" ->
            (~KnownProject(q)
                \/ \A f \in DOMAIN Projects[q.project_id.id].device_families :
                      DeviceFamily_str(Projects[q.project_id.id].device_families[f]) # q.str)
            => q.ret = RetNone
      [] q.op = "get_device_family_list" ->
            (~KnownProject(q) \/ DOMAIN Projects[q.project_id.id].device_families = {})
            => q.ret.kind = "list" /\ Cardinality(q.ret.value) = 1
      [] q.op = "get_firmware_list" ->
            (~KnownFamily(q)
                \/ Len(Projects[q.project_id.id].device_families[q.family_id.id].firmware) = 0)
            => q.ret.kind = "list" /\ Cardinality(q.ret.value) = 1
      [] q.op = "get_firmware" ->
            (~KnownFamily(q)
                \/ \A i \in 1..Len(Projects[q.project_id.id]
                                        .device_families[q.family_id.id].firmware) :
                      Firmware_str(Projects[q.project_id.id]
                                      .device_families[q.family_id.id].firmware[i]) # q.str)
            => q.ret = RetNone

\* C15, as a step: a query leaves Projects, DeviceFamilies and
\* valid_family_ids as they are, raises nothing, and returns None or a list of
\* one placeholder when the project id, the family id or the name it is given
\* is None or not in the catalog, or the catalog is empty.
C15_QueryStep ==
    IsQuery =>
        /\ Catalog' = Catalog
        /\ query'.ret.kind # "raise"
        /\ AbsentResult(query')

C15_QueriesReadOnly == [][C15_QueryStep]_vars

\* a loaded catalog asked for the firmware of a project it has and a family
\* that project does not have: None
C15_Witness ==
    /\ query.op = "get_firmware" /\ query.ret = RetNone
    /\ KnownProject(query) /\ ~KnownFamily(query) /\ ~query.family_id.is_none
    /\ DOMAIN DeviceFamilies # {}

IsRemove == call.op = "remove_downloaded_firmware"

\* C16, as a step: after a remove_downloaded_firmware call, from any files,
\* none of bootloader.bin, firmware.bin, partitions.bin, spiffs.bin and
\* otadata.bin exists and nothing was raised; a call that follows another one
\* changes no file.
C16_RemoveStep ==
    call'.op = "remove_downloaded_firmware" =>
        /\ \A a \in {"bootloader", "firmware", "partitions", "spiffs", "otadata"} :
              files'[a] = NoFile
        /\ call'.ret = "None"
        /\ IsRemove => files' = files

C16_RemoveAllIdempotent == [][C16_RemoveStep]_vars

\* the second, or a later, call made on the record is a
\* remove_downloaded_firmware (seq is 0 again)
C16_Witness ==
    /\ IsRemove /\ call.seq = 0
    /\ \A a \in Artifacts : files[a] = NoFile

\* C18, as a step: in a download_file call with check_checksum and
\* force_download both unset that finds a file, the file's digest plays no
\* part: with a URL of fewer than 12 characters the call returns False and
\* the file is still there, whatever its digest; with a longer URL the
\* request is made, whatever the digest.
C18_DigestStep ==
    (call'.op = "download_to_file" /\ ~call'.check_checksum /\ ~call'.force_download) =>
        \A i \in 1..Len(call'.log) :
            files[call'.log[i].bintype] # NoFile =>
                IF Len(call'.log[i].url) < 12
                THEN /\ call'.log[i].ret = "False"
                     /\ files'[call'.log[i].bintype] = files[call'.log[i].bintype]
                ELSE call'.log[i].requests = 1

C18_DigestOnlyWhenVerifying == [][C18_DigestStep]_vars

\* the checksum the record, or its family, has for an artifact type
Expected(fw, bintype) ==
    CASE bintype = "partitions" -> fw.checksum_partitions
      [] bintype = "spiffs" -> fw.checksum_spiffs
      [] bintype = "bootloader" -> fw.family.checksum_bootloader
      [] bintype = "otadata" -> fw.family.checksum_otadata
      [] bintype = "firmware" -> fw.checksum

\* C19 as claimed: after a download_to_file call with check_checksum set that
\* returned True, every one of the five files that exists has the digest the
\* record (or its family) expects for its type.
C19_EveryFileExpected ==
    (IsDownload /\ call.check_checksum /\ call.ret = "True") =>
        \A a \in Artifacts :
            files[a] # NoFile => hash_of_file(files[a]) = Expected(self, a)

\* C19 amended, as a step: after such a call every file the call fetched (the
\* main firmware and each part the record has) exists with the digest the
\* record expects for its type, and every other of the five files is as it
\* was before the call.
C19_FetchedStep ==
    (call'.op = "download_to_file" /\ call'.check_checksum /\ call'.ret = "True") =>
        \A a \in Artifacts :
            IF \E i \in 1..Len(call'.log) : call'.log[i].bintype = a
            THEN /\ files'[a] # NoFile
                 /\ hash_of_file(files'[a]) = Expected(self, a)
            ELSE files'[a] = files[a]

C19_FetchedFilesExpected == [][C19_FetchedStep]_vars

\* the call returned True and a file of a part the record does not have is
\* there, with another digest than the record has for that type
C19_Witness ==
    /\ IsDownload /\ call.check_checksum /\ call.ret = "True"
    /\ \E a \in Artifacts :
          /\ \A i \in Fetches : call.log[i].bintype # a
          /\ files[a] # NoFile /\ hash_of_file(files[a]) # Expected(self, a)

\* the firmware sequence of family f in the registry, and in project p's copy
RegistrySeq(f) == DeviceFamilies[f].firmware
ProjectSeq(p, f) == Projects[p].device_families[f].firmware

\* a firmware sequence is in the order of the response (a row's id is its
\* place in the response) and has no firmware twice
InResponseOrder(firmware) ==
    \A i, j \in 1..Len(firmware) : i < j => firmware[i].id < firmware[j].id

\* loadFirmware has returned True in the only load_from_website call
FirmwareLoaded == Len(stage_log) >= 3 /\ stage_log[3].ret = "True"

\* C20: in a FirmwareList loaded once, every firmware of a project's family
\* sequence has that project's id and that family's id and is in the
\* registry's sequence of the same family; every firmware of the registry has
\* the id of the family whose sequence it is in; every sequence is in response
\* order; and when loadFirmware returned True every firmware of the registry
\* is in the sequence of its family in its own project (so in exactly two
\* sequences, and in no other project's copy).
C20_FirmwareInTwoSequences ==
    /\ \A p \in DOMAIN Projects : \A f \in DOMAIN Projects[p].device_families :
          /\ InResponseOrder(ProjectSeq(p, f))
          /\ \A i \in 1..Len(ProjectSeq(p, f)) :
                /\ ProjectSeq(p, f)[i].project_id = p
                /\ ProjectSeq(p, f)[i].family_id = f
                /\ f \in DOMAIN DeviceFamilies
                /\ \E j \in 1..Len(RegistrySeq(f)) : RegistrySeq(f)[j] = ProjectSeq(p, f)[i]
    /\ \A f \in DOMAIN DeviceFamilies :
          /\ InResponseOrder(RegistrySeq(f))
          /\ \A j \in 1..Len(RegistrySeq(f)) :
                /\ RegistrySeq(f)[j].family_id = f
                /\ FirmwareLoaded =>
                      LET p == RegistrySeq(f)[j].project_id
                      IN /\ p \in DOMAIN Projects
                         /\ f \in DOMAIN Projects[p].device_families
                         /\ \E i \in 1..Len(ProjectSeq(p, f)) :
                               ProjectSeq(p, f)[i] = RegistrySeq(f)[j]

\* two firmware rows of one family, for two projects: the registry has both
\* in its sequence, each project has its own
C20_Witness ==
    /\ FirmwareLoaded
    /\ \E f \in DOMAIN DeviceFamilies :
          /\ Len(RegistrySeq(f)) = 2
          /\ Cardinality(ProjectsWith(f)) = 2
          /\ \A p \in ProjectsWith(f) : Len(ProjectSeq(p, f)) = 1
====
